---- MODULE Spec2Model ----
(***************************************************************************)
(* Model of the interpolation routines of interpol.py: linear,             *)
(* lagrange_cubic and pixelfix.                                            *)
(*                                                                         *)
(* Numbers are exact rationals <<num, den>> with den > 0 in lowest terms;  *)
(* the floating-point NaN is the pair <<0, 0>>.  Rounding is not modelled. *)
(* Arrays keep Python's 0-based indices: At(a, i) is a[i], with numpy's    *)
(* wrap-around of negative indices and IndexError outside -n..n-1.         *)
(***************************************************************************)
EXTENDS Integers, Sequences, FiniteSets, TLC

VARIABLES
    pc,        \* position in the running call
    xp, yp,    \* the sample table
    xq,        \* the queries, as the vector np.array(xq, ndmin=1)
    isScalar,  \* whether the caller passed xq as a scalar
    yq,        \* the result vector being filled
    k,         \* number of loop iterations done (queries or pixels)
    ind,       \* the bracket index left by the last scan
    broke,     \* whether the last scan ended by break
    inDom,     \* whether the last query passed the domain test
    err,       \* "none", or the exception that ended the call
    ret,       \* the returned value
    width,     \* number of columns of the image
    seed,      \* selects the original image contents
    pxq,       \* the list of pixel indices to replace
    copy,      \* the copy argument of pixelfix
    IqRef,     \* the array the name Iq is bound to: "I" or "fresh"
    I,         \* the caller's image: written pixels (others hold OrigPixel)
    fresh      \* a separately allocated image, if any: written pixels

vars == <<pc, xp, yp, xq, isScalar, yq, k, ind, broke, inDom, err, ret,
          width, seed, pxq, copy, IqRef, I, fresh>>

pixVars == <<width, seed, pxq, copy, IqRef, I, fresh>>

(***************************************************************************)
(* Bounds of the model.                                                    *)
(***************************************************************************)
XMax == 4      \* sample x-coordinates are drawn from 0..XMax
MaxN == 5      \* longest sample table
MaxQ == 2      \* longest query vector
MaxPx == 2     \* longest pixel list

(***************************************************************************)
(* Exact arithmetic standing for numpy's float arithmetic.                 *)
(***************************************************************************)
NaN == <<0, 0>>

IsNaN(a) == a[2] = 0

Abs(n) == IF n < 0 THEN -n ELSE n

RECURSIVE GCD(_, _)
GCD(a, b) == IF b = 0 THEN a ELSE GCD(b, a % b)

\* the rational n/d in lowest terms, d # 0
rNorm(n, d) ==
    LET g == GCD(Abs(n), Abs(d))
        s == IF d < 0 THEN -1 ELSE 1
    IN  <<(s * n) \div g, (s * d) \div g>>

rInt(n) == <<n, 1>>

rAdd(a, b) ==
    IF IsNaN(a) \/ IsNaN(b) THEN NaN
    ELSE rNorm(a[1] * b[2] + b[1] * a[2], a[2] * b[2])

rSub(a, b) ==
    IF IsNaN(a) \/ IsNaN(b) THEN NaN
    ELSE rNorm(a[1] * b[2] - b[1] * a[2], a[2] * b[2])

rMul(a, b) ==
    IF IsNaN(a) \/ IsNaN(b) THEN NaN
    ELSE rNorm(a[1] * b[1], a[2] * b[2])

\* true division; the only zero divisor the routines can meet is in 0/0,
\* which numpy evaluates to nan (with a RuntimeWarning)
rDiv(a, b) ==
    IF IsNaN(a) \/ IsNaN(b) THEN NaN
    ELSE IF b[1] = 0 THEN NaN
    ELSE rNorm(a[1] * b[2], a[2] * b[1])

\* comparisons; any comparison with nan is False
rLt(a, b) == ~IsNaN(a) /\ ~IsNaN(b) /\ a[1] * b[2] < b[1] * a[2]
rGt(a, b) == rLt(b, a)
rGe(a, b) == ~IsNaN(a) /\ ~IsNaN(b) /\ a[1] * b[2] >= b[1] * a[2]

(***************************************************************************)
(* numpy indexing of a vector held as a sequence.                          *)
(***************************************************************************)
InRange(a, i) == -Len(a) <= i /\ i < Len(a)

At(a, i) == IF i < 0 THEN a[i + Len(a) + 1] ELSE a[i + 1]

\* np.all(np.diff(xp) > 0)
Increasing(a) == \A i \in 1..(Len(a) - 1) : rGt(rSub(a[i + 1], a[i]), rInt(0))

\* the three assertions of the input control (xp is held as a vector, so
\* the first one passes)
InputOk(a, b) == Increasing(a) /\ Len(b) = Len(a)

\* yq = np.nan*np.ones_like(xq)
NanLike(q) == [i \in 1..Len(q) |-> NaN]

\* for ind in range(xp.size): if xp[ind] > x: break
\* gives the value of ind after the loop and whether the loop broke
RECURSIVE ScanFrom(_, _, _)
ScanFrom(a, x, i) ==
    IF rGt(At(a, i), x) THEN [ind |-> i, broke |-> TRUE]
    ELSE IF i + 1 < Len(a) THEN ScanFrom(a, x, i + 1)
    ELSE [ind |-> i, broke |-> FALSE]

Scan(a, x) == ScanFrom(a, x, 0)

\* the "ABYU" step: a result of size 1 is returned as its only element
Squeeze(v) ==
    IF Len(v) = 1 THEN [kind |-> "scalar", val |-> <<v[1]>>]
    ELSE [kind |-> "array", val |-> v]

(***************************************************************************)
(* linear                                                                  *)
(***************************************************************************)
\* the test that leaves yq[k] as NaN; needs xp[0] and xp[-1]
LinearOutside(a, x) == rLt(x, At(a, 0)) \/ rGt(x, At(a, -1))

\* yp[ind] + (yp[ind+1] - yp[ind])/(xp[ind+1] - xp[ind])*(x - xp[ind])
LinearValue(a, b, i, x) ==
    rAdd(At(b, i),
         rMul(rDiv(rSub(At(b, i + 1), At(b, i)), rSub(At(a, i + 1), At(a, i))),
              rSub(x, At(a, i))))

Validate ==
    /\ pc = "validate"
    /\ IF InputOk(xp, yp)
       THEN /\ yq' = NanLike(xq)
            /\ pc' = "loop"
            /\ err' = "none"
       ELSE /\ yq' = yq
            /\ pc' = "done"
            /\ err' = "AssertionError"
    /\ UNCHANGED <<xp, yp, xq, isScalar, k, ind, broke, inDom, ret>>
    /\ UNCHANGED pixVars

LinearIter ==
    /\ pc = "loop"
    /\ k < Len(xq)
    /\ LET x == xq[k + 1] IN
       IF ~InRange(xp, 0)
       THEN /\ err' = "IndexError"
            /\ pc' = "done"
            /\ UNCHANGED <<yq, k, ind, broke, inDom>>
       ELSE IF LinearOutside(xp, x)
       THEN /\ inDom' = FALSE
            /\ k' = k + 1
            /\ UNCHANGED <<yq, ind, broke, err, pc>>
       ELSE LET s == Scan(xp, x)
                i == s.ind - 1
            IN  /\ inDom' = TRUE
                /\ ind' = i
                /\ broke' = s.broke
                /\ IF InRange(xp, i) /\ InRange(xp, i + 1)
                   THEN /\ yq' = [yq EXCEPT ![k + 1] = LinearValue(xp, yp, i, x)]
                        /\ k' = k + 1
                        /\ UNCHANGED <<err, pc>>
                   ELSE /\ err' = "IndexError"
                        /\ pc' = "done"
                        /\ UNCHANGED <<yq, k>>
    /\ UNCHANGED <<xp, yp, xq, isScalar, ret>>
    /\ UNCHANGED pixVars

Return ==
    /\ pc = "loop"
    /\ k = Len(xq)
    /\ ret' = Squeeze(yq)
    /\ pc' = "done"
    /\ UNCHANGED <<xp, yp, xq, isScalar, yq, k, ind, broke, inDom, err>>
    /\ UNCHANGED pixVars

(***************************************************************************)
(* lagrange_cubic                                                          *)
(***************************************************************************)
\* variant: the right boundary taken as inclusive (x > xp[-2])
CubicOutsideClosed(a, x) == rLt(x, At(a, 1)) \/ rGt(x, At(a, -2))

\* variant: the domain test of linear reused (x < xp[0] or x > xp[-1])
CubicOutsideWide(a, x) == rLt(x, At(a, 0)) \/ rGt(x, At(a, -1))

\* the test that leaves yq[k] as NaN; needs xp[1] and xp[-2]
CubicOutside(a, x) == rLt(x, At(a, 1)) \/ rGe(x, At(a, -2))

\* variant: a denominator factor taken from the wrong node (xa - xc)
BasisTypo(x, xk, xa, xb, xc) ==
    rDiv(rMul(rMul(rSub(x, xa), rSub(x, xb)), rSub(x, xc)),
         rMul(rMul(rSub(xk, xa), rSub(xk, xb)), rSub(xa, xc)))

\* one Lagrange factor: ((x - xa)*(x - xb)*(x - xc))/((xk - xa)*(xk - xb)*(xk - xc))
Basis(x, xk, xa, xb, xc) ==
    rDiv(rMul(rMul(rSub(x, xa), rSub(x, xb)), rSub(x, xc)),
         rMul(rMul(rSub(xk, xa), rSub(xk, xb)), rSub(xk, xc)))

\* y1*f1 + y2*f2 + y3*f3 + y4*f4 over the stencil ind-1 .. ind+2
CubicValue(a, b, i, x) ==
    LET x1 == At(a, i - 1)  y1 == At(b, i - 1)
        x2 == At(a, i)      y2 == At(b, i)
        x3 == At(a, i + 1)  y3 == At(b, i + 1)
        x4 == At(a, i + 2)  y4 == At(b, i + 2)
        f1 == Basis(x, x1, x2, x3, x4)
        f2 == Basis(x, x2, x1, x3, x4)
        f3 == Basis(x, x3, x1, x2, x4)
        f4 == Basis(x, x4, x1, x2, x3)
    IN  rAdd(rAdd(rAdd(rMul(y1, f1), rMul(y2, f2)), rMul(y3, f3)), rMul(y4, f4))

\* the four indices the stencil reads
StencilOk(a, i) ==
    InRange(a, i - 1) /\ InRange(a, i) /\ InRange(a, i + 1) /\ InRange(a, i + 2)

CubicIter ==
    /\ pc = "loop"
    /\ k < Len(xq)
    /\ LET x == xq[k + 1] IN
       IF ~(InRange(xp, 1) /\ InRange(xp, -2))
       THEN /\ err' = "IndexError"
            /\ pc' = "done"
            /\ UNCHANGED <<yq, k, ind, broke, inDom>>
       ELSE IF CubicOutside(xp, x)
       THEN /\ inDom' = FALSE
            /\ k' = k + 1
            /\ UNCHANGED <<yq, ind, broke, err, pc>>
       ELSE LET s == Scan(xp, x)
                i == s.ind - 1
            IN  /\ inDom' = TRUE
                /\ ind' = i
                /\ broke' = s.broke
                /\ IF StencilOk(xp, i)
                   THEN /\ yq' = [yq EXCEPT ![k + 1] = CubicValue(xp, yp, i, x)]
                        /\ k' = k + 1
                        /\ UNCHANGED <<err, pc>>
                   ELSE /\ err' = "IndexError"
                        /\ pc' = "done"
                        /\ UNCHANGED <<yq, k>>
    /\ UNCHANGED <<xp, yp, xq, isScalar, ret>>
    /\ UNCHANGED pixVars

(***************************************************************************)
(* Inputs of the two interpolators.                                        *)
(***************************************************************************)
XVals == 0..XMax

RECURSIVE SortedSeq(_)
SortedSeq(S) ==
    IF S = {} THEN <<>>
    ELSE LET m == CHOOSE v \in S : \A w \in S : v <= w
         IN  <<rInt(m)>> \o SortedSeq(S \ {m})

\* increasing x-coordinates, evenly spaced or not
ValidTables == {SortedSeq(S) : S \in {T \in SUBSET XVals : Cardinality(T) <= MaxN}}

\* x-coordinates the input control rejects
InvalidTables == {<<rInt(1), rInt(1)>>, <<rInt(2), rInt(0)>>}

\* cubic polynomials <<a3, a2, a1, a0>> the y-coordinates are sampled from
Coefs == {<<1, 0, 0, 0>>, <<1, -2, 0, 1>>, <<0, 1, -1, 0>>, <<-1, 0, 3, 2>>}

Poly(c, x) ==
    rAdd(rMul(rAdd(rMul(rAdd(rMul(rInt(c[1]), x), rInt(c[2])), x), rInt(c[3])), x),
         rInt(c[4]))

\* y-coordinates for the table a: samples of a cubic, a zigzag that is no
\* cubic, and one vector of the wrong length
YTables(a) ==
    {[i \in 1..Len(a) |-> Poly(c, a[i])] : c \in Coefs}
        \cup {[i \in 1..Len(a) |-> rInt(i % 2)]}
        \cup {[i \in 1..(Len(a) + 1) |-> rInt(0)]}

\* query values: the halves from -1/2 to XMax + 1/2
QVals == {rNorm(j, 2) : j \in -1..(2 * XMax + 1)}

QueryVectors == UNION {[1..m -> QVals] : m \in 0..MaxQ}

InitInterp ==
    /\ pc = "validate"
    /\ xp \in ValidTables \cup InvalidTables
    /\ yp \in YTables(xp)
    /\ xq \in QueryVectors
    /\ isScalar \in {b \in BOOLEAN : b => Len(xq) = 1}
    /\ yq = <<>>
    /\ k = 0
    /\ ind = 0
    /\ broke = FALSE
    /\ inDom = FALSE
    /\ err = "none"
    /\ ret = [kind |-> "none", val |-> <<>>]
    /\ width = 0
    /\ seed = 0
    /\ pxq = <<>>
    /\ copy = TRUE
    /\ IqRef = "I"
    /\ I = <<>>
    /\ fresh = <<>>

NextLinear == Validate \/ LinearIter \/ Return

SpecLinear == InitInterp /\ [][NextLinear]_vars

NextCubic == Validate \/ CubicIter \/ Return

SpecCubic == InitInterp /\ [][NextCubic]_vars

(***************************************************************************)
(* pixelfix                                                                *)
(*                                                                         *)
(* An image is held as the map of the pixels written so far; every other   *)
(* pixel holds its original value OrigPixel.                               *)
(***************************************************************************)
\* the index the boundary tests compare against
LastIndex == 719

\* number of rows of the images considered (M of the M-by-N-by-3 array):
\* the last row is the one the row tests compare against
Height == LastIndex + 1

\* original value of channel ch of pixel <<r, c>>, in [0, 1]
OrigChannel(r, c, ch) == rNorm((3 * r + 7 * c + 2 * ch + seed * (r + c * c + ch)) % 9, 8)

OrigPixel(p) == [ch \in 1..3 |-> OrigChannel(p[1], p[2], ch - 1)]

\* numpy's bounds check and wrap-around on the first two axes
InGrid(p) == -Height <= p[1] /\ p[1] < Height /\ -width <= p[2] /\ p[2] < width

Wrap(p) == <<IF p[1] < 0 THEN p[1] + Height ELSE p[1],
             IF p[2] < 0 THEN p[2] + width ELSE p[2]>>

\* img[p[0], p[1], :]
Pixel(img, p) == IF Wrap(p) \in DOMAIN img THEN img[Wrap(p)] ELSE OrigPixel(Wrap(p))

\* img[p[0], p[1], :] = v
Store(img, p, v) == (Wrap(p) :> v) @@ img

\* variant: Iq = I.copy() when copy is requested
BindIqCopy(c) == IF c THEN "fresh" ELSE "I"

\* Iq = I: the copy argument is not consulted
BindIq(c) == "I"

\* the cells one branch of the boundary classification averages
Neighbours(x, y) ==
    IF x = 0 THEN
        IF y = 0 THEN <<<<x + 1, y>>, <<x, y + 1>>>>
        ELSE IF y = LastIndex THEN <<<<x + 1, y>>, <<x, y - 1>>>>
        ELSE <<<<x + 1, y>>, <<x, y + 1>>, <<x, y - 1>>>>
    ELSE IF x = LastIndex THEN
        IF y = 0 THEN <<<<x - 1, y>>, <<x, y + 1>>>>
        ELSE IF y = LastIndex THEN <<<<x - 1, y>>, <<x, y - 1>>>>
        ELSE <<<<x - 1, y>>, <<x, y + 1>>, <<x, y - 1>>>>
    ELSE
        IF y = 0 THEN <<<<x - 1, y>>, <<x, y + 1>>, <<x + 1, y>>>>
        ELSE IF y = LastIndex THEN <<<<x - 1, y>>, <<x + 1, y>>, <<x, y - 1>>>>
        ELSE <<<<x + 1, y>>, <<x, y + 1>>, <<x, y - 1>>, <<x - 1, y>>>>

RECURSIVE SumChannel(_, _, _, _)
SumChannel(img, nbs, ch, j) ==
    IF j > Len(nbs) THEN rInt(0)
    ELSE rAdd(Pixel(img, nbs[j])[ch], SumChannel(img, nbs, ch, j + 1))

\* (I[..] + ... + I[..])/n for the three channels
Average(img, nbs) == [ch \in 1..3 |-> rDiv(SumChannel(img, nbs, ch, 1), rInt(Len(nbs)))]

\* the array a name refers to
Deref(ref) == IF ref = "I" THEN I ELSE fresh

PixBind ==
    /\ pc = "bind"
    /\ IqRef' = BindIq(copy)
    /\ pc' = "pixloop"
    /\ UNCHANGED <<xp, yp, xq, isScalar, yq, k, ind, broke, inDom, err, ret>>
    /\ UNCHANGED <<width, seed, pxq, copy, I, fresh>>

PixIter ==
    /\ pc = "pixloop"
    /\ k < Len(pxq)
    /\ LET x == pxq[k + 1][1]
           y == pxq[k + 1][2]
           nbs == Neighbours(x, y)
       IN  IF (\A j \in 1..Len(nbs) : InGrid(nbs[j])) /\ InGrid(<<x, y>>)
           THEN /\ IF IqRef = "I"
                   THEN /\ I' = Store(I, <<x, y>>, Average(I, nbs))
                        /\ fresh' = fresh
                   ELSE /\ fresh' = Store(fresh, <<x, y>>, Average(I, nbs))
                        /\ I' = I
                /\ k' = k + 1
                /\ UNCHANGED <<err, pc>>
           ELSE /\ err' = "IndexError"
                /\ pc' = "done"
                /\ UNCHANGED <<I, fresh, k>>
    /\ UNCHANGED <<xp, yp, xq, isScalar, yq, ind, broke, inDom, ret>>
    /\ UNCHANGED <<width, seed, pxq, copy, IqRef>>

PixReturn ==
    /\ pc = "pixloop"
    /\ k = Len(pxq)
    /\ ret' = [kind |-> "image", val |-> <<IqRef>>]
    /\ pc' = "done"
    /\ UNCHANGED <<xp, yp, xq, isScalar, yq, k, ind, broke, inDom, err>>
    /\ UNCHANGED pixVars

\* image widths: narrower than, equal to and wider than LastIndex + 1
Widths == {2, LastIndex + 1, LastIndex + 2}

\* rows and columns the flagged pixels are drawn from
FlagRows == {0, 5, 6, LastIndex}
FlagCols == {0, 1, 5, 6, LastIndex, LastIndex + 1}

Coords(w) == {<<r, c>> : r \in FlagRows, c \in {c \in FlagCols : c < w}}

PixelLists(w) == UNION {[1..m -> Coords(w)] : m \in 0..MaxPx}

InitPix ==
    /\ pc = "bind"
    /\ width \in Widths
    /\ seed \in {0, 1}
    /\ pxq \in PixelLists(width)
    /\ copy \in BOOLEAN
    /\ IqRef = "unbound"
    /\ I = <<>>
    /\ fresh = <<>>
    /\ k = 0
    /\ err = "none"
    /\ ret = [kind |-> "none", val |-> <<>>]
    /\ xp = <<>>
    /\ yp = <<>>
    /\ xq = <<>>
    /\ isScalar = FALSE
    /\ yq = <<>>
    /\ ind = 0
    /\ broke = FALSE
    /\ inDom = FALSE

NextPix == PixBind \/ PixIter \/ PixReturn

SpecPix == InitPix /\ [][NextPix]_vars

(***************************************************************************)
(* Properties.  Result(j) is element j (from 1) of the returned value.     *)
(***************************************************************************)
Returned == pc = "done" /\ err = "none"

Result(j) == ret.val[j]

\* C1: for every table that passes the input control and every sample
\* index i, linear evaluated at the query xp[i] returns yp[i].
C1_LinearAtSample ==
    Returned =>
        \A j \in 1..Len(xq) : \A i \in 1..Len(xp) :
            xq[j] = xp[i] => Result(j) = yp[i]

\* C2: over a table that passes the input control, linear raises no error
\* and element j of the result is NaN when xq[j] < xp[0] or xq[j] > xp[-1]
\* and a number when xp[0] <= xq[j] <= xp[-1].
C2_LinearPerElement ==
    (pc = "done" /\ InputOk(xp, yp) /\ Len(xp) >= 1) =>
        /\ err = "none"
        /\ \A j \in 1..Len(xq) :
            /\ (rLt(xq[j], At(xp, 0)) \/ rGt(xq[j], At(xp, -1))) => IsNaN(Result(j))
            /\ (rGe(xq[j], At(xp, 0)) /\ rGe(At(xp, -1), xq[j])) => ~IsNaN(Result(j))

\* C5: the result has the shape of the query: a scalar for a scalar query,
\* a vector of length m for a query vector of length m, also for m = 1.
C5_ShapeMirrors ==
    Returned =>
        /\ isScalar => ret.kind = "scalar"
        /\ ~isScalar => (ret.kind = "array" /\ Len(ret.val) = Len(xq))

\* C3: lagrange_cubic over a table that passes the input control and has
\* the samples xp[1] and xp[-2] raises no error, and element j of its result
\* is NaN exactly when xq[j] < xp[1] or xq[j] >= xp[-2].
C3_CubicDomain ==
    (pc = "done" /\ InputOk(xp, yp) /\ Len(xp) >= 2) =>
        /\ err = "none"
        /\ \A j \in 1..Len(xq) :
            IsNaN(Result(j)) <=> (rLt(xq[j], At(xp, 1)) \/ rGe(xq[j], At(xp, -2)))

\* a batch over at least 4 samples that holds xp[-2] (answered NaN), xp[1]
\* (answered with a number) and the first sample (answered NaN)
C3_Witness ==
    /\ Returned /\ Len(xp) >= 4 /\ Len(xq) = 2
    /\ \E j \in 1..2 : xq[j] = At(xp, -2) /\ IsNaN(Result(j))
    /\ \E j \in 1..2 : xq[j] = At(xp, 1) /\ ~IsNaN(Result(j))

\* C4: a call of lagrange_cubic with fewer than 4 samples and at least one
\* query ends with an error and returns no result.
C4_RequiresFourSamples ==
    (pc = "done" /\ Len(xp) < 4 /\ Len(xq) >= 1) => err # "none"

\* the table yp holds the values of the cubic c at xp
SampledFrom(c) == Len(yp) = Len(xp) /\ \A i \in 1..Len(xp) : yp[i] = Poly(c, xp[i])

Cubes == <<rInt(0), rInt(1), rInt(8), rInt(27)>>

\* C9: when yp holds the values of a cubic p at xp, lagrange_cubic returns
\* p(x) for every query with xp[1] <= x < xp[-2]; over xp = [0,1,2,3] and
\* yp = [0,1,8,27] the query 1.5 gives 3.375, where linear's formula gives 4.5.
C9_CubicExact ==
    Returned =>
        /\ \A c \in Coefs : SampledFrom(c) =>
              \A j \in 1..Len(xq) :
                  (rGe(xq[j], At(xp, 1)) /\ rLt(xq[j], At(xp, -2))) =>
                      Result(j) = Poly(c, xq[j])
        /\ (xp = <<rInt(0), rInt(1), rInt(2), rInt(3)>> /\ yp = Cubes) =>
              \A j \in 1..Len(xq) : xq[j] = <<3, 2>> =>
                  /\ Result(j) = <<27, 8>>
                  /\ LinearValue(xp, yp, Scan(xp, xq[j]).ind - 1, xq[j]) = <<9, 2>>

\* five samples of a cubic, queried in both brackets of the domain
C9_Witness ==
    /\ Returned /\ Len(xp) = 5 /\ Len(xq) = 2
    /\ SampledFrom(<<1, -2, 0, 1>>)
    /\ xq = <<<<3, 2>>, <<5, 2>>>>
    /\ Result(1) = Poly(<<1, -2, 0, 1>>, xq[1])
    /\ Result(2) = Poly(<<1, -2, 0, 1>>, xq[2])

\* C10: whenever a query of lagrange_cubic passes the domain test, it lies
\* in [xp[1], xp[-2]), the scan ends by break, the bracket index ind is in
\* 1..n-3 with xp[ind] <= x < xp[ind+1], and the stencil ind-1..ind+2 lies
\* in 0..n-1.
C10_BracketInsideTable ==
    inDom =>
        /\ err = "none"
        /\ k >= 1
        /\ LET x == xq[k]
               n == Len(xp)
           IN  /\ rGe(x, At(xp, 1)) /\ rLt(x, At(xp, -2))
               /\ broke
               /\ 1 <= ind /\ ind <= n - 3
               /\ rGe(x, At(xp, ind)) /\ rLt(x, At(xp, ind + 1))
               /\ 0 <= ind - 1 /\ ind + 2 <= n - 1
               /\ Cardinality({At(xp, ind - 1), At(xp, ind), At(xp, ind + 1),
                               At(xp, ind + 2)}) = 4

\* a query in the last bracket of a five-point table: ind = n - 3
C10_Witness ==
    /\ inDom /\ Len(xp) = 5 /\ k >= 1
    /\ ind = Len(xp) - 3
    /\ ~IsNaN(yq[k])

\* the image the call returned
Final == Deref(ret.val[1])

\* the orthogonal neighbours of p that lie inside the grid
GridNeighbours(p) ==
    SelectSeq(<<<<p[1] - 1, p[2]>>, <<p[1] + 1, p[2]>>,
                <<p[1], p[2] - 1>>, <<p[1], p[2] + 1>>>>,
              LAMBDA q : 0 <= q[1] /\ q[1] < Height /\ 0 <= q[2] /\ q[2] < width)

\* C6: in a grid of 720 rows and any width >= 2, a flagged pixel inside the
\* grid is replaced, without error, by the per-channel average of exactly
\* its orthogonal neighbours inside the grid (2 at a corner, 3 on an edge,
\* 4 in the interior).
C6_InGridNeighbours ==
    (pc = "done" /\ Len(pxq) = 1) =>
        /\ err = "none"
        /\ Pixel(Final, pxq[1]) = Average(<<>>, GridNeighbours(pxq[1]))

\* the pixels listed before position j
Earlier(j) == {pxq[i] : i \in 1..(j - 1)}

\* the image pixel j reads when every earlier pixel holds its repaired value
\* and every other pixel its original value
SeenBy(j) == [p \in Earlier(j) |-> Pixel(Final, p)]

Distinct(s) == \A i, j \in 1..Len(s) : i # j => s[i] # s[j]

\* C7: pixels are repaired in list order and each neighbour read sees the
\* grid as written so far: in the returned image of a list without
\* repetitions, pixel j holds the average of its neighbours' values, taken
\* repaired for the neighbours listed before j and original for the others.
C7_SeesEarlierRepairs ==
    (Returned /\ Distinct(pxq)) =>
        \A j \in 1..Len(pxq) :
            Pixel(Final, pxq[j]) =
                Average(SeenBy(j), Neighbours(pxq[j][1], pxq[j][2]))

\* the list [(5,5),(5,6)]: (5,6) is repaired from the repaired (5,5), which
\* differs from the original (5,5), and the outcome differs from the
\* average of the original neighbours
C7_Witness ==
    /\ Returned
    /\ pxq = <<<<5, 5>>, <<5, 6>>>>
    /\ Pixel(Final, <<5, 5>>) # OrigPixel(<<5, 5>>)
    /\ Pixel(Final, <<5, 5>>) = Average(<<>>, Neighbours(5, 5))
    /\ Pixel(Final, <<5, 6>>) # Average(<<>>, Neighbours(5, 6))

\* C8: with copy=True the caller's image holds exactly its original values
\* after the call.
C8_CopyLeavesInput ==
    (Returned /\ copy) => \A p \in DOMAIN I : I[p] = OrigPixel(p)

====
